---- MODULE Spec2Model ----
(***************************************************************************)
(* One-way ANOVA on a synthetic one-factor dataset (src/anova/anova.py).   *)
(*                                                                         *)
(* float64 values are modelled in exact arithmetic: a value is either a    *)
(* normalised fraction n/d, or one of the IEEE specials NaN, +inf, -inf    *)
(* that numpy's division produces (numpy warns on x/0, it does not raise). *)
(* Rounding and the sign of zero are not modelled.                         *)
(***************************************************************************)
EXTENDS Integers, Sequences, FiniteSets, TLC

VARIABLES prev, last, df, results, outcome

vars == <<prev, last, df, results, outcome>>

\* ------------------------------------------------------------------ bounds
MaxObs == 3      \* rows of a caller-supplied DataFrame
MaxLevel == 1    \* caller-supplied level labels are 0..MaxLevel
MaxY == 2        \* caller-supplied y values are 0..MaxY
MaxA == 2        \* generate_dataset: a in 1..MaxA
MaxN == 2        \* generate_dataset: n in 1..MaxN
MaxEntropy == 1  \* OS entropy an unseeded generator may start from: 0..MaxEntropy

\* --------------------------------------------------------- float64 values
Abs(x) == IF x < 0 THEN -x ELSE x

Sign(x) == IF x < 0 THEN -1 ELSE IF x > 0 THEN 1 ELSE 0

RECURSIVE GCD(_, _)
GCD(x, y) == IF y = 0 THEN x ELSE GCD(y, x % y)

\* the fraction n/d (d # 0) in lowest terms with a positive denominator
Frac(n, d) ==
    LET g == GCD(Abs(n), Abs(d))
        s == Sign(d)
    IN  [k |-> "fin", n |-> (s * n) \div g, d |-> Abs(d) \div g]

NaN == [k |-> "nan", n |-> 0, d |-> 1]

Inf(sign) == [k |-> "inf", n |-> sign, d |-> 1]

IsFin(x) == x.k = "fin"

FNeg(x) == IF x.k = "nan" THEN NaN ELSE [x EXCEPT !.n = -x.n]

FAdd(x, y) ==
    IF x.k = "nan" \/ y.k = "nan" THEN NaN
    ELSE IF x.k = "inf" /\ y.k = "inf" THEN (IF x.n = y.n THEN x ELSE NaN)
    ELSE IF x.k = "inf" THEN x
    ELSE IF y.k = "inf" THEN y
    ELSE Frac(x.n * y.d + y.n * x.d, x.d * y.d)

FSub(x, y) == FAdd(x, FNeg(y))

FMul(x, y) ==
    IF x.k = "nan" \/ y.k = "nan" THEN NaN
    ELSE IF x.k = "inf" \/ y.k = "inf"
         THEN (IF x.n = 0 \/ y.n = 0 THEN NaN ELSE Inf(Sign(x.n) * Sign(y.n)))
    ELSE Frac(x.n * y.n, x.d * y.d)

\* IEEE division as numpy performs it on float64 scalars: x/0 is +-inf for
\* x # 0 and NaN for x = 0, with a RuntimeWarning and no exception
FDiv(x, y) ==
    IF x.k = "nan" \/ y.k = "nan" THEN NaN
    ELSE IF x.k = "inf" /\ y.k = "inf" THEN NaN
    ELSE IF x.k = "inf" THEN Inf(IF y.n < 0 THEN -x.n ELSE x.n)
    ELSE IF y.k = "inf" THEN Frac(0, 1)
    ELSE IF y.n = 0 THEN (IF x.n = 0 THEN NaN ELSE Inf(Sign(x.n)))
    ELSE Frac(x.n * y.d, x.d * y.n)

\* x >= 0 as float comparison: false for NaN
FGe0(x) == x.k # "nan" /\ x.n >= 0

RECURSIVE FSum(_)
FSum(s) == IF s = <<>> THEN Frac(0, 1) ELSE FAdd(Head(s), FSum(Tail(s)))

\* ndarray.mean(): sum / size; the mean of an empty array is NaN
np_mean(s) == FDiv(FSum(s), Frac(Len(s), 1))

Sq(x) == FMul(x, x)

\* ------------------------------------------------------------ anova_one_way
\* df["y"].values
y_values(d) == [i \in DOMAIN d |-> d[i].y]

\* df.groupby("level"): the group keys, sorted ascending. The groups are the
\* levels present in the column, as for the DataFrames generate_dataset
\* builds; a categorical column with unobserved categories is not modelled.
RECURSIVE SortedSeq(_)
SortedSeq(S) ==
    IF S = {} THEN <<>>
    ELSE LET m == CHOOSE x \in S : \A z \in S : x <= z
         IN  <<m>> \o SortedSeq(S \ {m})

group_keys(d) == SortedSeq({d[i].level : i \in DOMAIN d})

\* the y values of the rows whose level is g, in row order
group_rows(d, g) == SelectSeq(d, LAMBDA r : r.level = g)

ngroups(d) == Len(group_keys(d))

\* groups.size().to_numpy()
n_i_unordered(d) ==
    LET first(g) == CHOOSE i \in DOMAIN d :
                        d[i].level = g /\ \A j \in DOMAIN d : d[j].level = g => i <= j
        S == {d[i].level : i \in DOMAIN d}
        RECURSIVE ByFirst(_)
        ByFirst(T) ==
            IF T = {} THEN <<>>
            ELSE LET m == CHOOSE x \in T : \A z \in T : first(x) <= first(z)
                 IN  <<m>> \o ByFirst(T \ {m})
        keys == ByFirst(S)
    IN  [g \in DOMAIN keys |-> Len(group_rows(d, keys[g]))]

n_i(d) ==
    LET keys == group_keys(d)
    IN  [g \in DOMAIN keys |-> Len(group_rows(d, keys[g]))]

\* groups.mean()["y"].to_numpy()
group_means(d) ==
    LET keys == group_keys(d)
    IN  [g \in DOMAIN keys |-> np_mean(y_values(group_rows(d, keys[g])))]

grand_mean_of_group_means(d) == np_mean(group_means(d))

grand_mean(d) == np_mean(y_values(d))

ss_total(y, gm) == FSum([i \in DOMAIN y |-> Sq(FSub(y[i], gm))])

ss_treat_unweighted(sizes, gmeans, gm) ==
    FSum([g \in DOMAIN gmeans |-> Sq(FSub(gmeans[g], gm))])

ss_treat(sizes, gmeans, gm) ==
    FSum([g \in DOMAIN gmeans |-> FMul(Frac(sizes[g], 1), Sq(FSub(gmeans[g], gm)))])

df_treat(a) == a - 1

df_error_off_by_one(N, a) == N - a - 1

df_error(N, a) == N - a

df_total(N) == N - 1

\* F = ms_treat / ms_error
F_guarded(ms_treat, ms_error) ==
    IF IsFin(ms_error) /\ ms_error.n = 0 THEN Frac(0, 1) ELSE FDiv(ms_treat, ms_error)

F_stat(ms_treat, ms_error) == FDiv(ms_treat, ms_error)

\* scipy.stats.f.sf(x, dfn, dfd): NaN for a NaN argument or non-positive
\* degrees of freedom, 1 at and below 0, 0 at +inf, and otherwise the
\* upper-tail probability of F(dfn, dfd) at x, a number in [0, 1] kept
\* symbolically
f_sf(x, dfn, dfd) ==
    IF x.k = "nan" \/ dfn <= 0 \/ dfd <= 0 THEN [k |-> "nan"]
    ELSE IF x.k = "inf" THEN (IF x.n > 0 THEN [k |-> "zero"] ELSE [k |-> "one"])
    ELSE IF x.n <= 0 THEN [k |-> "one"]
    ELSE [k |-> "sf", x |-> x, dfn |-> dfn, dfd |-> dfd]

anova_one_way(d) ==
    LET y == y_values(d)
        a == ngroups(d)
        sizes == n_i(d)
        N == Len(y)
        gm == grand_mean(d)
        sst == ss_total(y, gm)
        sstr == ss_treat(sizes, group_means(d), gm)
        sse == FSub(sst, sstr)
        dft == df_treat(a)
        dfe == df_error(N, a)
        mst == FDiv(sstr, Frac(dft, 1))
        mse == FDiv(sse, Frac(dfe, 1))
        F == F_stat(mst, mse)
    IN  [SStotal |-> sst, SStreatments |-> sstr, SSerror |-> sse,
         df_treat |-> dft, df_error |-> dfe, df_total |-> df_total(N),
         MS_treat |-> mst, MS_error |-> mse, F |-> F,
         p_value |-> f_sf(F, dft, dfe)]

\* --------------------------------------------------------- generate_dataset
\* Python's None, and an int argument v
None == [none |-> TRUE]

Some(v) == [none |-> FALSE, v |-> v]

\* A numpy Generator is modelled by a 4-bit linear congruential generator:
\* a state, a step, and the standard normal variate read off the state.
\* (PCG64 itself is not modelled: what the program relies on is that the
\* stream is a function of the initial state alone.)
rng_next(s) == (5 * s + 3) % 16

RECURSIVE rng_state(_, _)
rng_state(s, k) == IF k = 0 THEN s ELSE rng_state(rng_next(s), k - 1)

\* the k-th standard normal variate drawn from a generator created in state s
standard_normal(s, k) == Frac((rng_state(s, k) \div 4) - 2, 1)

\* a generator that continues the stream of the preceding call
default_rng_shared(seed, entropy) ==
    IF last.made THEN rng_state(last.rng, Len(last.out))
    ELSE IF seed = None THEN entropy % 16 ELSE (7 * seed.v + 1) % 16

\* np.random.default_rng(seed) / np.random.default_rng(): the state of the
\* new generator, from the seed when there is one, else from OS entropy
default_rng(seed, entropy) ==
    IF seed = None THEN entropy % 16 ELSE (7 * seed.v + 1) % 16

np_arange(a) == [i \in 1..a |-> i - 1]

\* np.tile(x, n): the whole array n times over
np_tile(x, n) == [k \in 1..(Len(x) * n) |-> x[((k - 1) % Len(x)) + 1]]

\* np.repeat(x, n): each element n times, consecutively
np_repeat(x, n) == [k \in 1..(Len(x) * n) |-> x[((k - 1) \div n) + 1]]

\* means = intercept + 0.6 * levels
means(intercept, levels) ==
    [i \in DOMAIN levels |-> FAdd(intercept, FMul(Frac(6, 10), Frac(levels[i], 1)))]

\* rng.normal(loc=<array>, scale=sigma): one variate per element of loc, in
\* draw order
rng_normal(rng, loc, scale) ==
    [k \in DOMAIN loc |-> FAdd(loc[k], FMul(scale, standard_normal(rng, k)))]

DataFrame(level, y) == [k \in DOMAIN level |-> [level |-> level[k], y |-> y[k]]]

\* the mean model honouring the slope argument
generate_dataset_with_slope(a, n, slope, intercept, sigma, seed, entropy) ==
    LET rng == default_rng(seed, entropy)
        levels == np_arange(a)
        m == [i \in DOMAIN levels |->
                 FAdd(intercept, FMul(slope, Frac(levels[i], 1)))]
    IN  DataFrame(np_repeat(levels, n), rng_normal(rng, np_repeat(m, n), sigma))

\* entropy is what the operating system hands an unseeded generator
generate_dataset(a, n, slope, intercept, sigma, seed, entropy) ==
    LET rng == default_rng(seed, entropy)
        levels == np_arange(a)
        m == means(intercept, levels)
    IN  DataFrame(np_repeat(levels, n), rng_normal(rng, np_repeat(m, n), sigma))

\* ------------------------------------------------------------------- state
NoCall == [made |-> FALSE]

NoResults == [none |-> TRUE]

Init ==
    /\ prev = NoCall
    /\ last = NoCall
    /\ df = <<>>
    /\ results = NoResults
    /\ outcome = "none"

Rows == [level : 0..MaxLevel, y : {Frac(v, 1) : v \in 0..MaxY}]

\* a caller builds a DataFrame of its own, one row at a time
AddRow ==
    /\ outcome = "none"
    /\ last = NoCall
    /\ Len(df) < MaxObs
    /\ \E r \in Rows : df' = Append(df, r)
    /\ UNCHANGED <<prev, last, results, outcome>>

\* results = anova_one_way(df): the function has no raise statement, and
\* numpy's float division does not raise, so every call returns a dict.
\* The DataFrame has at least one row.
Analyze ==
    /\ outcome = "none"
    /\ Len(df) >= 1
    /\ results' = anova_one_way(df)
    /\ outcome' = "returned"
    /\ UNCHANGED <<prev, last, df>>

\* argument values: the defaults of generate_dataset and the driver's
Slopes == {Frac(2, 1), Frac(3, 2)}

Intercepts == {Frac(5, 1), Frac(3, 1)}

Sigmas == {Frac(6, 5), Frac(0, 1)}

Seeds == {Some(42), Some(123), None}

Entropy(seed) == IF seed = None THEN 0..MaxEntropy ELSE {0}

Call(a, n, slope, intercept, sigma, seed, entropy) ==
    [made |-> TRUE, a |-> a, n |-> n, slope |-> slope, intercept |-> intercept,
     sigma |-> sigma, seed |-> seed, rng |-> default_rng(seed, entropy),
     out |-> generate_dataset(a, n, slope, intercept, sigma, seed, entropy)]

\* data = generate_dataset(a, n, slope, intercept, sigma, seed); a call that
\* follows a repeated call is not explored
GenerateDataset ==
    /\ prev = NoCall
    /\ \E a \in 1..MaxA, n \in 1..MaxN, slope \in Slopes, intercept \in Intercepts,
          sigma \in Sigmas, seed \in Seeds :
          \E entropy \in Entropy(seed) :
             last' = Call(a, n, slope, intercept, sigma, seed, entropy)
    /\ prev' = NoCall
    /\ df' = last'.out
    /\ results' = NoResults
    /\ outcome' = "none"

\* the caller repeats its last call with the same a, n, intercept, sigma and
\* seed, and any slope; prev keeps the call that is repeated
RepeatCall ==
    /\ last.made
    /\ prev = NoCall
    /\ \E slope \in Slopes :
          \E entropy \in Entropy(last.seed) :
             last' = Call(last.a, last.n, slope, last.intercept, last.sigma,
                          last.seed, entropy)
    /\ prev' = last
    /\ df' = last'.out
    /\ results' = NoResults
    /\ outcome' = "none"

NextGenerator == GenerateDataset \/ RepeatCall \/ Analyze

SpecGenerator == Init /\ [][NextGenerator]_vars

NextAnova == AddRow \/ Analyze

SpecAnova == Init /\ [][NextAnova]_vars

Next == AddRow \/ GenerateDataset \/ RepeatCall \/ Analyze

Spec == Init /\ [][Next]_vars

\* ------------------------------------------------------------------ claims
Analysed == outcome # "none"

\* N and A of the analysed DataFrame, counted directly
NObs == Len(df)

AGroups == Cardinality({df[i].level : i \in DOMAIN df})

RowsOf(g) == {i \in DOMAIN df : df[i].level = g}

LevelsOf == {df[i].level : i \in DOMAIN df}

RECURSIVE SumOver(_, _)
SumOver(S, f) ==
    IF S = {} THEN Frac(0, 1)
    ELSE LET i == CHOOSE x \in S : TRUE
         IN  FAdd(f[i], SumOver(S \ {i}, f))

\* the unweighted mean of all N observations
MeanOfAll == FDiv(SumOver(DOMAIN df, [i \in DOMAIN df |-> df[i].y]), Frac(NObs, 1))

MeanOfGroup(g) ==
    FDiv(SumOver(RowsOf(g), [i \in DOMAIN df |-> df[i].y]),
         Frac(Cardinality(RowsOf(g)), 1))

\* every group's within-group variance is exactly zero
ZeroWithin == \A i, j \in DOMAIN df : df[i].level = df[j].level => df[i].y = df[j].y

InUnitInterval(p) == p.k \in {"zero", "one", "sf"}

\* C1: anova_one_way fails with InsufficientDataError, and returns no result,
\* whenever the DataFrame has fewer than 2 distinct groups or N <= A.
C1_RaisesInsufficientData ==
    (Analysed /\ (AGroups < 2 \/ NObs <= AGroups)) => outcome = "InsufficientDataError"

\* C2: on every returned result df_treat = A - 1, df_error = N - A and
\* df_treat + df_error = df_total = N - 1.
C2_DegreesOfFreedom ==
    Analysed =>
        /\ results.df_treat = AGroups - 1
        /\ results.df_error = NObs - AGroups
        /\ results.df_treat + results.df_error = results.df_total
        /\ results.df_total = NObs - 1

C2_Witness == Analysed /\ AGroups = 2 /\ NObs = 3

\* C3: on every returned result SStotal, SStreatments, SSerror, MS_treat,
\* MS_error and F are >= 0 and p_value lies in [0, 1].
C3_NonNegative ==
    Analysed =>
        /\ FGe0(results.SStotal)
        /\ FGe0(results.SStreatments)
        /\ FGe0(results.SSerror)
        /\ FGe0(results.MS_treat)
        /\ FGe0(results.MS_error)
        /\ FGe0(results.F)
        /\ InUnitInterval(results.p_value)

\* C4: SStotal = SStreatments + SSerror, where SStotal is the sum over the
\* observations of (y_j - mean)^2, SStreatments the sum over the groups of
\* n_i * (mean_i - mean)^2, and mean the unweighted mean of all N observations.
C4_Additivity ==
    Analysed =>
        /\ results.SStotal = FAdd(results.SStreatments, results.SSerror)
        /\ results.SStotal =
               SumOver(DOMAIN df, [i \in DOMAIN df |-> Sq(FSub(df[i].y, MeanOfAll))])
        /\ results.SStreatments =
               SumOver(LevelsOf,
                       [g \in LevelsOf |->
                           FMul(Frac(Cardinality(RowsOf(g)), 1),
                                Sq(FSub(MeanOfGroup(g), MeanOfAll)))])

\* groups of different sizes, where the mean of the group means is another
\* number than the mean of all observations
C4_Witness ==
    /\ Analysed
    /\ \E g, h \in LevelsOf : Cardinality(RowsOf(g)) # Cardinality(RowsOf(h))
    /\ grand_mean_of_group_means(df) # MeanOfAll
    /\ results.SStreatments.n > 0

SwapRows(d, i, j) ==
    [k \in DOMAIN d |-> IF k = i THEN d[j] ELSE IF k = j THEN d[i] ELSE d[k]]

\* C9: anova_one_way is order-invariant: exchanging any two rows of the
\* DataFrame leaves every entry of the result unchanged. (Every DataFrame up
\* to the bound is analysed, and the transpositions generate the permutations.)
C9_OrderInvariant ==
    Analysed =>
        \A i, j \in DOMAIN df : i < j => anova_one_way(SwapRows(df, i, j)) = results

C9_Witness ==
    /\ Analysed
    /\ NObs >= 3
    /\ \E i \in DOMAIN df : i < NObs /\ df[i].level > df[i + 1].level
                              /\ df[i].y # df[i + 1].y
    /\ results.F.k = "fin" /\ results.F.n > 0

\* C10: SSerror, derived as SStotal - SStreatments, equals the within-group
\* sum of squares accumulated directly: the sum over the groups i and the
\* observations j of group i of (y_ij - mean_i)^2.
C10_WithinGroupSS ==
    Analysed =>
        results.SSerror =
            SumOver(DOMAIN df,
                    [i \in DOMAIN df |-> Sq(FSub(df[i].y, MeanOfGroup(df[i].level)))])

C10_Witness ==
    /\ Analysed
    /\ \E g, h \in LevelsOf : Cardinality(RowsOf(g)) # Cardinality(RowsOf(h))
    /\ results.SSerror.n > 0
    /\ results.SStreatments.n > 0

SameButSlope(c, d) ==
    /\ c.made /\ d.made
    /\ c.a = d.a /\ c.n = d.n /\ c.intercept = d.intercept /\ c.sigma = d.sigma
    /\ c.seed = d.seed /\ c.seed # None

====
